---- MODULE Spec2Model ----
(***************************************************************************)
(* nl2sql-agent: the guardrail validator (app/guardrails.py), the          *)
(* deterministic query builders (app/sql_builder.py), the executor's own   *)
(* pre-checks (app/db.py) and the orchestrator run_agent (app/agent.py).   *)
(*                                                                         *)
(* Texts are TLA+ strings; a character is a string of length one.  The     *)
(* regular expressions of the source are written out as operators over     *)
(* the characters of the text.  Python's None is the empty tuple and an    *)
(* Optional[str] holding s is <<s>>.                                       *)
(***************************************************************************)
EXTENDS Integers, Sequences, FiniteSets, TLC

VARIABLES
    sql,                    \* SpecValidate: the text handed to validate_sql
    verdict,                \* SpecValidate: what validate_sql returned for it (None before the call)
    pending_question,       \* memory._state["pending_question"]
    pending_clarification,  \* memory._state["pending_clarification"]
    generator_loaded,       \* agent._generator is not None
    pc,                     \* where the request in progress stands: idle, generate, execute, done
    turns,                  \* the number of requests started
    asked,                  \* the argument of the request in progress
    combined_question,      \* its combined_question
    route,                  \* the branch of run_agent it took
    exec_sql,               \* the SQL it is about to hand to the executor
    warnings,               \* its warnings list
    calls,                  \* the calls it made to the validator and the collaborators, in order
    response,               \* the AskResponse it returned (None while it runs)
    raised,                 \* whether it ended with an exception instead
    pending_read,           \* its local pending_question: what get_pending returned at line 116
    reqs,                   \* SpecRace: the requests served by concurrent worker threads
    call,                   \* the pure-function specifications: the function applied and its argument
    returned                \* the pure-function specifications: what it returned (None before the call)

vvars == <<sql, verdict>>
avars == <<pending_question, pending_clarification, generator_loaded, pc, turns, asked,
           combined_question, route, exec_sql, warnings, calls, response, raised, pending_read>>
rvars == <<reqs>>
pvars == <<call, returned>>
vars == <<vvars, avars, rvars, pvars>>

None == <<>>
Some(s) == <<s>>

(***************************************************************************)
(* Python str and re primitives                                            *)
(***************************************************************************)
UpperLetters == "ABCDEFGHIJKLMNOPQRSTUVWXYZ"
LowerLetters == "abcdefghijklmnopqrstuvwxyz"
Digits == "0123456789"

Char(s, i) == SubSeq(s, i, i)

CharsOf(alphabet) == {Char(alphabet, k) : k \in 1..Len(alphabet)}

UpperSet == CharsOf(UpperLetters)
LowerSet == CharsOf(LowerLetters)
WordSet == UpperSet \cup LowerSet \cup CharsOf(Digits) \cup {"_"}
IdentStartSet == UpperSet \cup LowerSet \cup {"_"}

\* str.lower() / str.upper() on one character
LowerMap == [c \in UpperSet |-> Char(LowerLetters, CHOOSE k \in 1..26 : Char(UpperLetters, k) = c)]
UpperMap == [c \in LowerSet |-> Char(UpperLetters, CHOOSE k \in 1..26 : Char(LowerLetters, k) = c)]

LowerChar(c) == IF c \in UpperSet THEN LowerMap[c] ELSE c
UpperChar(c) == IF c \in LowerSet THEN UpperMap[c] ELSE c

\* the least element of a set of numbers that is not empty
Min(S) == CHOOSE x \in S : \A y \in S : x <= y

\* str.lower(): the text up to its first upper-case letter is kept as it is
RECURSIVE lower(_)
lower(s) ==
    LET ups == {i \in 1..Len(s) : Char(s, i) \in UpperSet}
    IN  IF ups = {} THEN s
        ELSE LET i == Min(ups)
             IN  SubSeq(s, 1, i - 1) \o LowerChar(Char(s, i)) \o lower(SubSeq(s, i + 1, Len(s)))

\* str.upper()
RECURSIVE upper(_)
upper(s) ==
    LET lows == {i \in 1..Len(s) : Char(s, i) \in LowerSet}
    IN  IF lows = {} THEN s
        ELSE LET i == Min(lows)
             IN  SubSeq(s, 1, i - 1) \o UpperChar(Char(s, i)) \o upper(SubSeq(s, i + 1, Len(s)))

\* \s of the re module (the whitespace the texts here can hold)
IsSpace(c) == c \in {" ", "\n", "\t"}

\* \w of the re module
IsWordChar(c) == c \in WordSet

\* [a-zA-Z_]
IsIdentStart(c) == c \in IdentStartSet

WordAt(s, i) == i >= 1 /\ i <= Len(s) /\ IsWordChar(Char(s, i))

\* \b between positions i-1 and i
Boundary(s, i) == WordAt(s, i - 1) # WordAt(s, i)

\* the literal p occurs in s at position i
MatchAt(s, p, i) == i >= 1 /\ i + Len(p) - 1 <= Len(s) /\ SubSeq(s, i, i + Len(p) - 1) = p

\* p in s
Contains(s, p) == \E i \in 1..(Len(s) + 1) : MatchAt(s, p, i)

\* s.startswith(p)
StartsWith(s, p) == MatchAt(s, p, 1)

\* re.search(r"\bp\b", s)
SearchWord(s, p) == \E i \in 1..Len(s) : MatchAt(s, p, i) /\ Boundary(s, i) /\ Boundary(s, i + Len(p))

\* s.count(c) for a single character c
Count(s, c) == Cardinality({i \in 1..Len(s) : Char(s, i) = c})

RECURSIVE lstrip(_)
lstrip(s) == IF s # "" /\ IsSpace(Char(s, 1)) THEN lstrip(SubSeq(s, 2, Len(s))) ELSE s

RECURSIVE rstrip(_)
rstrip(s) == IF s # "" /\ IsSpace(Char(s, Len(s))) THEN rstrip(SubSeq(s, 1, Len(s) - 1)) ELSE s

\* str.strip()
strip(s) == rstrip(lstrip(s))

\* str.rstrip(c) for a single character c
RECURSIVE rstripChar(_, _)
rstripChar(s, c) == IF s # "" /\ Char(s, Len(s)) = c THEN rstripChar(SubSeq(s, 1, Len(s) - 1), c) ELSE s

\* the first position >= i of s that holds no whitespace (Len(s)+1 if none)
RECURSIVE SkipSpace(_, _)
SkipSpace(s, i) == IF i <= Len(s) /\ IsSpace(Char(s, i)) THEN SkipSpace(s, i + 1) ELSE i

\* the first position >= i of s that holds no \w character (Len(s)+1 if none)
RECURSIVE SkipWord(_, _)
SkipWord(s, i) == IF i <= Len(s) /\ IsWordChar(Char(s, i)) THEN SkipWord(s, i + 1) ELSE i

\* r"\bkw\s+([a-zA-Z_][\w]*)" matches s at position i
TableMatchAt(s, kw, i) ==
    /\ MatchAt(s, kw, i)
    /\ Boundary(s, i)
    /\ LET j == SkipSpace(s, i + Len(kw))
       IN  j > i + Len(kw) /\ j <= Len(s) /\ IsIdentStart(Char(s, j))

\* re.findall(r"\bkw\s+([a-zA-Z_][\w]*)", s): the captured names, scanning from
\* position i, each match resuming after the one before it
RECURSIVE FindTables(_, _, _)
FindTables(s, kw, i) ==
    LET starts == {m \in i..Len(s) : TableMatchAt(s, kw, m)}
    IN  IF starts = {} THEN <<>>
        ELSE LET first == Min(starts)
                 j == SkipSpace(s, first + Len(kw))
                 e == SkipWord(s, j)
             IN  <<SubSeq(s, j, e - 1)>> \o FindTables(s, kw, e)

Range(seq) == {seq[k] : k \in 1..Len(seq)}

(***************************************************************************)
(* app/guardrails.py                                                       *)
(***************************************************************************)
ALLOWED_SCHEMA == {"users", "payments", "events", "tickets"}

\* a mutant of FORBIDDEN_KEYWORDS: the last keyword is missing
FORBIDDEN_KEYWORDS_short ==
    <<"insert", "update", "delete", "drop", "alter", "truncate", "create", "attach", "pragma">>

FORBIDDEN_KEYWORDS ==
    <<"insert", "update", "delete", "drop", "alter", "truncate", "create", "attach", "pragma",
      "intersect">>

_uses_only_allowed_tables(sql_lower) ==
    LET tables == Range(FindTables(sql_lower, "from", 1)) \cup Range(FindTables(sql_lower, "join", 1))
    IN  IF tables # {} THEN \A table \in tables : table \in ALLOWED_SCHEMA ELSE TRUE

_has_self_join(sql_lower) ==
    LET from_tables == FindTables(sql_lower, "from", 1)
        join_tables == FindTables(sql_lower, "join", 1)
    IN  \E jt \in Range(join_tables) : jt \in Range(from_tables)

_references_large_tables_without_time_filter(sql_lower) ==
    LET references_large_table == \E name \in {"payments", "events"} : Contains(sql_lower, name)
        has_time_filter == Contains(sql_lower, "created_at")
    IN  references_large_table /\ ~has_time_filter

\* re.search(r"select\s+\*", sql_lower)
SearchSelectStar(sql_lower) ==
    \E i \in 1..Len(sql_lower) :
        /\ MatchAt(sql_lower, "select", i)
        /\ LET j == SkipSpace(sql_lower, i + 6)
           IN  j > i + 6 /\ j <= Len(sql_lower) /\ Char(sql_lower, j) = "*"

\* the loop of validate_sql over FORBIDDEN_KEYWORDS: the first keyword found, or None
ForbiddenHit(sql_lower) ==
    LET hits == {k \in 1..Len(FORBIDDEN_KEYWORDS) : SearchWord(sql_lower, FORBIDDEN_KEYWORDS[k])}
    IN  IF hits = {} THEN None
        ELSE Some(FORBIDDEN_KEYWORDS[Min(hits)])

ReasonForbidden(keyword) == "Query contains forbidden keyword: " \o keyword \o "."
ReasonMultiple == "Multiple SQL statements are not allowed."
ReasonSchema == "Query references tables outside the allowed schema."
ReasonSelfJoin == "Self-joins are not allowed for analytics queries."
ReasonSelectStar == "SELECT * is not allowed; specify explicit columns."
QuestionTimeRange == "Which time range do you want? (last 7 days / last 30 days / custom)"
WarningLimit == "LIMIT 50 was automatically applied for safety"

Blocked(reason) ==
    [status |-> "blocked", sql |-> None, warnings |-> <<>>, reason |-> Some(reason), question |-> None]

\* a mutant of validate_sql: the time-window check runs before the wildcard check
validate_sql_reordered(sqltext) ==
    LET normalized == strip(sqltext)
        sql_lower == lower(normalized)
        forbidden_hit == ForbiddenHit(sql_lower)
    IN  IF forbidden_hit # None THEN Blocked(ReasonForbidden(forbidden_hit[1]))
        ELSE IF Count(normalized, ";") > 1 THEN Blocked(ReasonMultiple)
        ELSE IF ~_uses_only_allowed_tables(sql_lower) THEN Blocked(ReasonSchema)
        ELSE IF _has_self_join(sql_lower) THEN Blocked(ReasonSelfJoin)
        ELSE IF _references_large_tables_without_time_filter(sql_lower)
             THEN [status |-> "clarification_needed", sql |-> None, warnings |-> <<>>,
                   reason |-> None, question |-> Some(QuestionTimeRange)]
        ELSE IF SearchSelectStar(sql_lower) THEN Blocked(ReasonSelectStar)
        ELSE IF ~Contains(sql_lower, "limit")
             THEN [status |-> "success", sql |-> Some(rstripChar(normalized, ";") \o " LIMIT 50"),
                   warnings |-> <<WarningLimit>>, reason |-> None, question |-> None]
        ELSE [status |-> "success", sql |-> Some(normalized), warnings |-> <<>>,
              reason |-> None, question |-> None]

validate_sql(sqltext) ==
    LET normalized == strip(sqltext)
        sql_lower == lower(normalized)
        forbidden_hit == ForbiddenHit(sql_lower)
    IN  IF forbidden_hit # None THEN Blocked(ReasonForbidden(forbidden_hit[1]))
        ELSE IF Count(normalized, ";") > 1 THEN Blocked(ReasonMultiple)
        ELSE IF ~_uses_only_allowed_tables(sql_lower) THEN Blocked(ReasonSchema)
        ELSE IF _has_self_join(sql_lower) THEN Blocked(ReasonSelfJoin)
        ELSE IF SearchSelectStar(sql_lower) THEN Blocked(ReasonSelectStar)
        ELSE IF _references_large_tables_without_time_filter(sql_lower)
             THEN [status |-> "clarification_needed", sql |-> None, warnings |-> <<>>,
                   reason |-> None, question |-> Some(QuestionTimeRange)]
        ELSE IF ~Contains(sql_lower, "limit")
             THEN [status |-> "success", sql |-> Some(rstripChar(normalized, ";") \o " LIMIT 50"),
                   warnings |-> <<WarningLimit>>, reason |-> None, question |-> None]
        ELSE [status |-> "success", sql |-> Some(normalized), warnings |-> <<>>,
              reason |-> None, question |-> None]

(***************************************************************************)
(* app/sql_builder.py                                                      *)
(***************************************************************************)
\* str(n) for a natural number n
RECURSIVE IntText(_)
IntText(n) == IF n < 10 THEN Char(Digits, n + 1) ELSE IntText(n \div 10) \o Char(Digits, (n % 10) + 1)

\* country is None or Some(code)
build_users_query(country, aggregate) ==
    LET select_clause == IF aggregate THEN "SELECT COUNT(*) AS user_count" ELSE "SELECT *"
        base == select_clause \o "\nFROM users"
        filtered == IF country # None /\ country[1] # ""
                    THEN base \o "\nWHERE country = '" \o country[1] \o "'"
                    ELSE base
    IN  filtered \o "\nLIMIT 50"

\* str.join of a list of texts
RECURSIVE Join(_, _)
Join(sep, parts) ==
    IF parts = <<>> THEN ""
    ELSE IF Len(parts) = 1 THEN parts[1]
    ELSE parts[1] \o sep \o Join(sep, Tail(parts))

\* status is None or Some(text); since_days is None or Some(number)
build_payments_query(status, since_days, aggregate) ==
    LET select_clause == IF aggregate THEN "SELECT COUNT(*) AS failed_payments" ELSE "SELECT *"
        status_clause == IF status # None /\ status[1] # ""
                         THEN <<"status = '" \o status[1] \o "'">> ELSE <<>>
        since_clause == IF since_days # None /\ since_days[1] # 0
                        THEN <<"created_at >= datetime('now', '-" \o IntText(since_days[1]) \o " days')">>
                        ELSE <<>>
        where_clauses == status_clause \o since_clause
        where_line == IF where_clauses # <<>>
                      THEN <<"WHERE " \o Join("\n  AND ", where_clauses)>> ELSE <<>>
    IN  Join("\n", <<select_clause, "FROM payments">> \o where_line \o <<"LIMIT 50">>)

(***************************************************************************)
(* app/db.py                                                               *)
(***************************************************************************)
\* a mutant of DB_FORBIDDEN_KEYWORDS: the list without its last keyword
DB_FORBIDDEN_KEYWORDS_short == <<"INSERT", "UPDATE", "DELETE", "DROP", "ALTER", "TRUNCATE">>

DB_FORBIDDEN_KEYWORDS == <<"INSERT", "UPDATE", "DELETE", "DROP", "ALTER", "TRUNCATE", "CREATE">>

\* what execute_read_only_query raises before it opens a connection (None: nothing)
ExecutorRejects(sqltext) ==
    LET normalized_sql == rstripChar(strip(sqltext), ";")
        upper_sql == upper(normalized_sql)
    IN  IF ~(StartsWith(upper_sql, "SELECT") \/ StartsWith(upper_sql, "WITH"))
        THEN Some("Only SELECT queries are permitted.")
        ELSE IF \E k \in 1..Len(DB_FORBIDDEN_KEYWORDS) : SearchWord(upper_sql, DB_FORBIDDEN_KEYWORDS[k])
        THEN Some("Write operations are not allowed in read-only mode.")
        ELSE None

(***************************************************************************)
(* app/normalize.py                                                        *)
(***************************************************************************)
COUNTRY_MAP ==
    << <<"india", "IN">>, <<"united states", "US">>, <<"usa", "US">>, <<"us", "US">>,
       <<"united kingdom", "UK">>, <<"uk", "UK">>, <<"germany", "DE">>, <<"singapore", "SG">> >>

\* re.sub(r"\bhuman\b", code, s, flags=re.IGNORECASE), from position i of s on;
\* low is lower(s), which is what matching without regard to case compares
RECURSIVE SubWordFrom(_, _, _, _, _)
SubWordFrom(s, low, human, code, i) ==
    LET starts == {m \in i..Len(s) :
                      MatchAt(low, human, m) /\ Boundary(s, m) /\ Boundary(s, m + Len(human))}
    IN  IF starts = {} THEN SubSeq(s, i, Len(s))
        ELSE LET first == Min(starts)
             IN  SubSeq(s, i, first - 1) \o code \o SubWordFrom(s, low, human, code, first + Len(human))

SubWord(s, human, code) == SubWordFrom(s, lower(s), human, code, 1)

\* the loop of normalize_question over the first k entries of COUNTRY_MAP
RECURSIVE NormalizeUpTo(_, _)
NormalizeUpTo(normalized, k) ==
    IF k = 0 THEN normalized
    ELSE SubWord(NormalizeUpTo(normalized, k - 1), COUNTRY_MAP[k][1], COUNTRY_MAP[k][2])

normalize_question(question) == NormalizeUpTo(lower(question), Len(COUNTRY_MAP))

(***************************************************************************)
(* app/intent.py                                                           *)
(***************************************************************************)
RECURSIVE SkipDigits(_, _)
SkipDigits(s, i) == IF i <= Len(s) /\ Char(s, i) \in CharsOf(Digits) THEN SkipDigits(s, i + 1) ELSE i

\* re.search(r"\b\d+\s*unit\b", s)
SearchCountOf(s, unit) ==
    \E i \in 1..Len(s) :
        /\ Boundary(s, i)
        /\ LET j == SkipDigits(s, i)
               k == SkipSpace(s, j)
           IN  j > i /\ MatchAt(s, unit, k) /\ Boundary(s, k + Len(unit))

detect_intent(question) ==
    LET q == lower(question)
    IN  [is_filter |-> \E w \in {"from", "in", "where"} : SearchWord(q, w),
         is_group_by |-> \E w \in {"by", "per", "grouped by"} : SearchWord(q, w),
         is_aggregate |-> \E w \in {"count", "how many", "total", "sum"} : SearchWord(q, w),
         has_time_range |-> \/ \E w \in {"last", "past"} : SearchWord(q, w)
                            \/ \E unit \in {"days", "weeks", "months"} : SearchCountOf(q, unit)]

(***************************************************************************)
(* app/extractors.py                                                       *)
(***************************************************************************)
CountryCodes == {"in", "us", "uk", "de", "sg"}

CountryAt(q, i) == \E c \in CountryCodes : MatchAt(q, c, i) /\ Boundary(q, i) /\ Boundary(q, i + 2)

\* the first match of r"\b(in|us|uk|de|sg)\b", upper-cased, or None
extract_country(question) ==
    LET q == lower(question)
        hits == {i \in 1..Len(q) : CountryAt(q, i)}
    IN  IF hits = {} THEN None
        ELSE LET first == Min(hits)
             IN  Some(upper(SubSeq(q, first, first + 1)))

(***************************************************************************)
(* app/agent.py: the pure helpers                                          *)
(***************************************************************************)
\* Python truthiness of an Optional[str]
Truthy(opt) == opt # None /\ opt[1] # ""

\* The backquote cannot be written in a string of this language: the character ~
\* stands for it in every text of the model (a code fence is ~~~).
\* re.sub(r"<fence>sql|<fence>", "", text, flags=re.IGNORECASE), from position i of text on
RECURSIVE StripFences(_, _)
StripFences(text, i) ==
    LET starts == {m \in i..Len(text) : MatchAt(text, "~~~", m)}
    IN  IF starts = {} THEN SubSeq(text, i, Len(text))
        ELSE LET first == Min(starts)
                 width == IF MatchAt(lower(text), "~~~sql", first) THEN 6 ELSE 3
             IN  SubSeq(text, i, first - 1) \o StripFences(text, first + width)

\* the first position >= i of text that holds c (Len(text)+1 if none)
RECURSIVE FindChar(_, _, _)
FindChar(text, c, i) == IF i <= Len(text) /\ Char(text, i) # c THEN FindChar(text, c, i + 1) ELSE i

\* text.splitlines()[0] of a text that is not empty
FirstLine(text) == SubSeq(text, 1, FindChar(text, "\n", 1) - 1)

_clean_sql(generated_text) ==
    LET text == strip(StripFences(strip(generated_text), 1))
        low == lower(text)
        \* re.search(r"(select[\s\S]*?;)", text, flags=re.IGNORECASE)
        starts == {i \in 1..Len(text) : MatchAt(low, "select", i) /\ FindChar(text, ";", i + 6) <= Len(text)}
    IN  IF starts # {}
        THEN LET first == Min(starts)
             IN  strip(SubSeq(text, first, FindChar(text, ";", first + 6)))
        ELSE strip(IF text = "" THEN text ELSE FirstLine(text))

FOLLOWUP_ANSWERS ==
    {"list", "show list", "just the list", "count", "just the count", "total", "last 7 days",
     "last 30 days"}

is_followup_answer(text) == lower(strip(text)) \in FOLLOWUP_ANSWERS

ClarTimeRange == "Which time range should I use? (last 7 days / last 30 days / custom)"
ClarAmerica == "Did you mean United States (US)?"
ClarListOrCount == "Do you want the list or just the count?"

\* a mutant of needs_clarification: the policy without the rule of the ambiguous country
needs_clarification_no_america(intent, question) ==
    LET q == lower(question)
    IN  IF (Contains(q, "payment") \/ Contains(q, "event")) /\ ~intent.has_time_range
        THEN Some(ClarTimeRange)
        ELSE IF intent.is_filter /\ ~intent.is_aggregate
        THEN IF \E marker \in {" list", "show list", "just the list"} : Contains(q, marker) THEN None
             ELSE IF \E marker \in {"count", "how many", "total", "just the count"} : Contains(q, marker)
             THEN None
             ELSE Some(ClarListOrCount)
        ELSE None

\* a mutant of needs_clarification: the rule of the ambiguous country is tried first
needs_clarification_america_first(intent, question) ==
    LET q == lower(question)
    IN  IF Contains(q, "america") THEN Some(ClarAmerica)
        ELSE IF (Contains(q, "payment") \/ Contains(q, "event")) /\ ~intent.has_time_range
        THEN Some(ClarTimeRange)
        ELSE IF intent.is_filter /\ ~intent.is_aggregate
        THEN IF \E marker \in {" list", "show list", "just the list"} : Contains(q, marker) THEN None
             ELSE IF \E marker \in {"count", "how many", "total", "just the count"} : Contains(q, marker)
             THEN None
             ELSE Some(ClarListOrCount)
        ELSE None

needs_clarification(intent, question) ==
    LET q == lower(question)
    IN  IF (Contains(q, "payment") \/ Contains(q, "event")) /\ ~intent.has_time_range
        THEN Some(ClarTimeRange)
        ELSE IF Contains(q, "america") THEN Some(ClarAmerica)
        ELSE IF intent.is_filter /\ ~intent.is_aggregate
        THEN IF \E marker \in {" list", "show list", "just the list"} : Contains(q, marker) THEN None
             ELSE IF \E marker \in {"count", "how many", "total", "just the count"} : Contains(q, marker)
             THEN None
             ELSE Some(ClarListOrCount)
        ELSE None

\* re.sub(r"(?i)^show\s+", "", base)
StripLeadingShow(base) ==
    IF Len(base) >= 4 /\ lower(SubSeq(base, 1, 4)) = "show" /\ SkipSpace(base, 5) > 5
    THEN SubSeq(base, SkipSpace(base, 5), Len(base))
    ELSE base

\* a mutant of _resolve_followup: the rewritten question keeps the text of the reply
_resolve_followup_with_reply(pending, follow_up) ==
    LET base == strip(pending)
        follow == strip(follow_up)
        low_follow == lower(follow)
        base_no_show == strip(StripLeadingShow(base))
    IN  IF \E k \in {"days", "weeks", "months", "last", "past"} : Contains(low_follow, k)
        THEN Some(base \o " " \o follow)
        ELSE IF \E k \in {"count", "how many", "total", "sum"} : Contains(low_follow, k)
        THEN Some("How many " \o base_no_show \o " " \o follow)
        ELSE IF \E k \in {"list", "show"} : Contains(low_follow, k)
        THEN Some("Show " \o base_no_show \o " " \o follow)
        ELSE None

\* a mutant of _resolve_followup: an aggregate reply is rewritten as a list question
_resolve_followup_listed(pending, follow_up) ==
    LET base == strip(pending)
        follow == strip(follow_up)
        low_follow == lower(follow)
        base_no_show == strip(StripLeadingShow(base))
    IN  IF \E k \in {"days", "weeks", "months", "last", "past"} : Contains(low_follow, k)
        THEN Some(base \o " " \o follow)
        ELSE IF \E k \in {"count", "how many", "total", "sum", "list", "show"} : Contains(low_follow, k)
        THEN Some("Show " \o base_no_show)
        ELSE None

_resolve_followup(pending, follow_up) ==
    LET base == strip(pending)
        follow == strip(follow_up)
        low_follow == lower(follow)
        base_no_show == strip(StripLeadingShow(base))
    IN  IF \E k \in {"days", "weeks", "months", "last", "past"} : Contains(low_follow, k)
        THEN Some(base \o " " \o follow)
        ELSE IF \E k \in {"count", "how many", "total", "sum"} : Contains(low_follow, k)
        THEN Some("How many " \o base_no_show)
        ELSE IF \E k \in {"list", "show"} : Contains(low_follow, k)
        THEN Some("Show " \o base_no_show)
        ELSE None

\* a mutant of CombinedQuestion: a reply that matches no rule is appended to the pending
\* question all the same
CombinedQuestion_appending(pending, question) ==
    IF Truthy(pending) THEN
        IF ~is_followup_answer(question) /\ Truthy(_resolve_followup(pending[1], question))
        THEN _resolve_followup(pending[1], question)[1]
        ELSE pending[1] \o " " \o question
    ELSE question

\* run_agent, lines 116-131: the question that is processed, given the slot and the input
CombinedQuestion(pending, question) ==
    IF Truthy(pending) /\ is_followup_answer(question) THEN pending[1] \o " " \o question
    ELSE IF Truthy(pending) /\ Truthy(_resolve_followup(pending[1], question))
    THEN _resolve_followup(pending[1], question)[1]
    ELSE question

\* a mutant of PendingAfterFollowup: the slot is kept when no merge rule matched
PendingAfterFollowup_kept(pending, clarification, question) ==
    IF Truthy(pending) /\ is_followup_answer(question) THEN <<None, None>>
    ELSE IF Truthy(pending)
    THEN IF Truthy(_resolve_followup(pending[1], question)) THEN <<None, None>>
         ELSE <<pending, clarification>>
    ELSE <<pending, clarification>>

\* run_agent, lines 120-129: the slot after the follow-up step; each of the three branches
\* taken with an occupied slot calls clear_pending
PendingAfterFollowup(pending, clarification, question) ==
    IF Truthy(pending) /\ is_followup_answer(question) THEN <<None, None>>
    ELSE IF Truthy(pending)
    THEN IF Truthy(_resolve_followup(pending[1], question)) THEN <<None, None>>
         ELSE <<None, None>>
    ELSE <<pending, clarification>>

\* run_agent, lines 133-142: the intent after the explicit-wording overrides
OverriddenIntent(normalized_question) ==
    LET intent == detect_intent(normalized_question)
        lower_q == lower(normalized_question)
    IN  IF \E marker \in {"count", "how many", "total"} : Contains(lower_q, marker)
        THEN [intent EXCEPT !.is_aggregate = TRUE]
        ELSE IF \E marker \in {" list", "show ", "details"} : Contains(lower_q, marker)
        THEN [intent EXCEPT !.is_aggregate = FALSE]
        ELSE intent

\* a mutant of Route: the user path does not look for the other subjects
Route_users_only(intent, normalized_question) ==
    LET lower_q == lower(normalized_question)
        is_simple_query == \/ intent.is_filter
                           \/ intent.is_aggregate
                           \/ (Contains(lower_q, "payment") /\ intent.has_time_range)
        has_group_by == intent.is_group_by
        has_join_keywords == \E k \in {" join ", "join "} : Contains(lower_q, k)
        is_payments_query == Contains(lower_q, "payment")
        is_users_query == Contains(lower_q, "users")
        status == IF Contains(lower_q, "failed") THEN Some("failed") ELSE None
        since7 == IF Contains(lower_q, "7 days") \/ Contains(lower_q, "last 7 days") THEN Some(7) ELSE None
        since_days == IF Contains(lower_q, "30 days") \/ Contains(lower_q, "last 30 days")
                      THEN Some(30) ELSE since7
    IN  IF is_payments_query /\ is_simple_query /\ ~has_group_by /\ ~has_join_keywords
        THEN [route |-> "payments",
              sql |-> Some(build_payments_query(status, since_days, intent.is_aggregate))]
        ELSE IF /\ is_users_query /\ is_simple_query /\ ~has_group_by
                /\ ~has_join_keywords
        THEN [route |-> "users",
              sql |-> Some(build_users_query(extract_country(normalized_question), intent.is_aggregate))]
        ELSE [route |-> "generated", sql |-> None]

\* run_agent, lines 154-220: the deterministic router; the route and the SQL it builds
Route(intent, normalized_question) ==
    LET lower_q == lower(normalized_question)
        is_simple_query == \/ intent.is_filter
                           \/ intent.is_aggregate
                           \/ (Contains(lower_q, "payment") /\ intent.has_time_range)
        has_group_by == intent.is_group_by
        has_join_keywords == \E k \in {" join ", "join "} : Contains(lower_q, k)
        is_payments_query == Contains(lower_q, "payment")
        is_users_query == Contains(lower_q, "users")
        references_other_tables == \E name \in {"payment", "event", "ticket"} : Contains(lower_q, name)
        status == IF Contains(lower_q, "failed") THEN Some("failed") ELSE None
        since7 == IF Contains(lower_q, "7 days") \/ Contains(lower_q, "last 7 days") THEN Some(7) ELSE None
        since_days == IF Contains(lower_q, "30 days") \/ Contains(lower_q, "last 30 days")
                      THEN Some(30) ELSE since7
    IN  IF is_payments_query /\ is_simple_query /\ ~has_group_by /\ ~has_join_keywords
        THEN [route |-> "payments",
              sql |-> Some(build_payments_query(status, since_days, intent.is_aggregate))]
        ELSE IF /\ is_users_query /\ is_simple_query /\ ~has_group_by
                /\ ~references_other_tables /\ ~has_join_keywords
        THEN [route |-> "users",
              sql |-> Some(build_users_query(extract_country(normalized_question), intent.is_aggregate))]
        ELSE [route |-> "generated", sql |-> None]

(***************************************************************************)
(* SpecValidate: validate_sql applied to bounded SQL texts                 *)
(***************************************************************************)
MaxFrags == 3

\* the pieces the free texts are put together from, in any order
SqlFragments ==
    {"select id", "select *", "select id, *", " from users", " from payments", " from secrets",
     ", secrets", " join users", ", created_at", " where created_at > 0", " limit 5",
     " as unlimited", ";", " Drop"}

RECURSIVE FragTexts(_)
FragTexts(n) ==
    IF n = 0 THEN {""} ELSE LET shorter == FragTexts(n - 1)
                            IN  shorter \cup {t \o f : t \in shorter, f \in SqlFragments}

\* the keywords claim C3 lists
ClaimKeywords ==
    {"insert", "update", "delete", "drop", "alter", "truncate", "create", "attach", "pragma",
     "intersect"}

Capitalized(w) == UpperChar(Char(w, 1)) \o SubSeq(w, 2, Len(w))

\* texts that hold one of the keywords, in three letter cases, alone, glued to other
\* characters, or beside what other checks react to
KeywordTexts ==
    {pre \o w \o post :
        pre \in {"", "select id from users; ", "select * from secrets where x = ", "un"},
        w \in UNION {{k, upper(k), Capitalized(k)} : k \in ClaimKeywords},
        post \in {"", " table users", ";;", "_x"}}

SqlInputs == FragTexts(MaxFrags) \cup KeywordTexts

AgentInit ==
    /\ pending_question = None
    /\ pending_clarification = None
    /\ generator_loaded = FALSE
    /\ pc = "idle"
    /\ turns = 0
    /\ asked = ""
    /\ combined_question = ""
    /\ route = "none"
    /\ exec_sql = None
    /\ warnings = <<>>
    /\ calls = <<>>
    /\ response = None
    /\ raised = FALSE
    /\ pending_read = None
    /\ reqs = <<>>

InitValidate == sql \in SqlInputs /\ verdict = None /\ AgentInit /\ call = None /\ returned = None

Validate ==
    /\ verdict = None
    /\ verdict' = Some(validate_sql(sql))
    /\ sql' = sql
    /\ UNCHANGED <<avars, rvars, pvars>>

NextValidate == Validate

SpecValidate == InitValidate /\ [][NextValidate]_vars

(***************************************************************************)
(* Spec: requests served one after the other by run_agent                  *)
(***************************************************************************)
MaxTurns == 2

Questions ==
    {"Show failed payments last 7 days", "How many failed payments last 30 days",
     "Show payments", "How many payments last week", "Show payments last 7 days or 30 days",
     "How many users from India", "How many users in Germany", "Show users from America",
     "Show users from usa", "How many users", "Show tickets", "users per country",
     "events last 7 days", "How many users opened tickets"}

Replies ==
    {"count", "just the count", "total", "sum", "how many", "list", "last 7 days", "Last 30 days",
     "thanks", "show me the total"}

\* what the generator collaborator may return as generated_text
RawOutputs ==
    {"SELECT id FROM users;", "~~~sql\nSELECT id, name FROM users LIMIT 5;\n~~~",
     "select * from tickets", "select id from payments", "DROP TABLE users;",
     "select id as unlimited from users", "Sorry, I cannot answer that.",
     "select id from events where created_at > 0; select 1;"}

\* what the database returns for a query it runs
DbResults == {[columns |-> <<"id">>, rows |-> <<>>], [columns |-> <<"id">>, rows |-> <<"row">>]}

AskResponse(answer, sqlopt, rows, explanation, confidence, warns) ==
    [answer |-> answer, sql |-> sqlopt, rows |-> rows, explanation |-> explanation,
     confidence |-> confidence, warnings |-> warns]

\* run_agent from its entry to its first call of a collaborator (lines 116-220)
Ask(q) ==
    /\ pc \in {"idle", "done"}
    /\ turns < MaxTurns
    /\ LET combined == CombinedQuestion(pending_question, q)
           normalized_question == normalize_question(combined)
           intent == OverriddenIntent(normalized_question)
           clar_question == needs_clarification(intent, normalized_question)
           plan == Route(intent, normalized_question)
           cleared == PendingAfterFollowup(pending_question, pending_clarification, q)
       IN  /\ turns' = turns + 1
           /\ asked' = q
           /\ pending_read' = pending_question
           /\ combined_question' = combined
           /\ calls' = <<>>
           /\ warnings' = <<>>
           /\ raised' = FALSE
           /\ UNCHANGED <<generator_loaded, vvars, rvars, pvars>>
           /\ IF Truthy(clar_question)
              THEN /\ pending_question' = Some(combined)
                   /\ pending_clarification' = clar_question
                   /\ route' = "clarification"
                   /\ exec_sql' = None
                   /\ response' = Some(AskResponse("I need more information to answer this.", None,
                                                   <<>>, clar_question, "0.4", <<>>))
                   /\ pc' = "done"
              ELSE /\ pending_question' = cleared[1]
                   /\ pending_clarification' = cleared[2]
                   /\ route' = plan.route
                   /\ exec_sql' = plan.sql
                   /\ response' = None
                   /\ pc' = IF plan.route = "generated" THEN "generate" ELSE "execute"

\* a mutant of ExecutableSql: the candidate is executed, not the SQL of the verdict
ExecutableSql_candidate(safe_sql, proposed_sql) == Some(proposed_sql)

\* executable_sql = safe_sql or proposed_sql (line 295)
ExecutableSql(safe_sql, proposed_sql) == IF Truthy(safe_sql) THEN safe_sql ELSE Some(proposed_sql)

\* load_model and the generator call, then _clean_sql and validate_sql (lines 246-295)
Generate ==
    /\ pc = "generate"
    /\ UNCHANGED <<pending_question, pending_clarification, turns, asked, combined_question,
                   route, pending_read, vvars, rvars, pvars>>
    /\ \/ \* load_model raises: nothing catches it
          /\ ~generator_loaded
          /\ raised' = TRUE
          /\ pc' = "done"
          /\ UNCHANGED <<generator_loaded, exec_sql, warnings, calls, response>>
       \/ \* the generator raises
          /\ generator_loaded' = TRUE
          /\ calls' = Append(calls, [op |-> "generate", ok |-> FALSE])
          /\ response' = Some(AskResponse("", Some(""), <<>>,
                                          Some("Failed to generate SQL from the model."), "0.0",
                                          <<"Model generation failed; please try rephrasing your question.">>))
          /\ pc' = "done"
          /\ UNCHANGED <<exec_sql, warnings, raised>>
       \/ \E raw_sql \in RawOutputs :
             LET proposed_sql == _clean_sql(raw_sql)
                 validation == validate_sql(proposed_sql)
                 status == validation.status
                 safe_sql == validation.sql
                 reason == IF Truthy(validation.reason) THEN validation.reason[1]
                           ELSE "Query was blocked for safety reasons."
                 called == calls \o <<[op |-> "generate", ok |-> TRUE],
                                      [op |-> "validate", sql |-> proposed_sql, verdict |-> validation]>>
             IN  /\ generator_loaded' = TRUE
                 /\ calls' = called
                 /\ raised' = raised
                 /\ IF status = "blocked"
                    THEN /\ warnings' = Append(validation.warnings, reason)
                         /\ response' = Some(AskResponse("", Some(""), <<>>,
                                                         Some("Query was blocked for safety reasons."),
                                                         "0.0", Append(validation.warnings, reason)))
                         /\ exec_sql' = None
                         /\ pc' = "done"
                    ELSE IF status = "clarification_needed"
                    THEN /\ warnings' = validation.warnings
                         /\ response' = Some(AskResponse("", None, <<>>,
                                                 IF Truthy(validation.question) THEN validation.question
                                                 ELSE Some("I need a time range to run this query safely."),
                                                 "0.4", validation.warnings))
                         /\ exec_sql' = None
                         /\ pc' = "done"
                    ELSE /\ warnings' = validation.warnings
                         /\ response' = None
                         /\ exec_sql' = ExecutableSql(safe_sql, proposed_sql)
                         /\ pc' = "execute"

ExplainRows(result, default) ==
    IF result.columns # <<>> /\ result.rows # <<>>
    THEN "Returned " \o IntText(Len(result.rows)) \o " rows with columns: "
         \o Join(", ", result.columns) \o "."
    ELSE default

\* a mutant of ExecutionFailure: a failed execution is reported with confidence 0.0
ExecutionFailure_zero(deterministic, sqlopt, warns) ==
    AskResponse("", sqlopt, <<>>, Some("Query execution failed."), "0.0",
                IF deterministic THEN <<"Deterministic path execution failed.">>
                ELSE Append(warns, "Query failed to execute. Please adjust your request."))

\* the except branches of the three executor calls (lines 197-205, 236-244, 311-320)
ExecutionFailure(deterministic, sqlopt, warns) ==
    AskResponse("", sqlopt, <<>>, Some("Query execution failed."), "0.4",
                IF deterministic THEN <<"Deterministic path execution failed.">>
                ELSE Append(warns, "Query failed to execute. Please adjust your request."))

\* db.execute_read_only_query and the wrapping of its outcome (lines 182-205, 221-244, 296-320)
Execute ==
    /\ pc = "execute"
    /\ pc' = "done"
    /\ UNCHANGED <<pending_question, pending_clarification, generator_loaded, turns, asked,
                   combined_question, route, exec_sql, raised, pending_read, vvars, rvars, pvars>>
    /\ LET deterministic == route \in {"payments", "users"}
           failure == ExecutionFailure(deterministic, exec_sql, warnings)
       IN  \/ \* the executor raises: its own pre-checks, or the database
              /\ calls' = Append(calls, [op |-> "execute", sql |-> exec_sql[1], ok |-> FALSE])
              /\ response' = Some(failure)
              /\ warnings' = failure.warnings
           \/ /\ ExecutorRejects(exec_sql[1]) = None
              /\ calls' = Append(calls, [op |-> "execute", sql |-> exec_sql[1], ok |-> TRUE])
              /\ \E result \in DbResults :
                    response' = Some(AskResponse("Here are the results of your query.", exec_sql,
                                         result.rows,
                                         Some(ExplainRows(result,
                                                 IF deterministic
                                                 THEN "Query executed via deterministic routing."
                                                 ELSE "Query executed safely with guardrails applied.")),
                                         "0.7", warnings))
              /\ warnings' = warnings

Init == AgentInit /\ sql = "" /\ verdict = None /\ call = None /\ returned = None

Next == (\E q \in Questions \cup Replies : Ask(q)) \/ Generate \/ Execute

Spec == Init /\ [][Next]_vars

(***************************************************************************)
(* SpecRace: requests served by concurrent worker threads.  app/main.py    *)
(* declares the /ask handler with def, so the framework runs each request  *)
(* on a thread of its pool, and app/memory.py guards _state with no lock.  *)
(* A step is one call of get_pending, clear_pending or set_pending with    *)
(* the local computation that precedes it.  The caller's conversation is   *)
(* known to the caller only: AskRequest carries the question alone.        *)
(***************************************************************************)
MaxRequests == 3

Conversations == {"A", "B"}

RaceInputs == {"Show payments", "count", "thanks"}

\* lines 114-116: a request arrives and reads the slot
GetPending(q, c) ==
    /\ Len(reqs) < MaxRequests
    /\ reqs' = Append(reqs, [pc |-> "followup", question |-> q, conversation |-> c,
                             pending_question |-> pending_question, combined_question |-> q,
                             response |-> None])
    /\ UNCHANGED <<avars, vvars, pvars>>

\* lines 117-129: the follow-up step; clear_pending when the slot it read was occupied
Followup(r) ==
    /\ reqs[r].pc = "followup"
    /\ LET pending == reqs[r].pending_question
           combined == CombinedQuestion(pending, reqs[r].question)
       IN  /\ reqs' = [reqs EXCEPT ![r].pc = "gate", ![r].combined_question = combined]
           /\ pending_question' = IF Truthy(pending) THEN None ELSE pending_question
           /\ pending_clarification' = IF Truthy(pending) THEN None ELSE pending_clarification
    /\ UNCHANGED <<generator_loaded, pc, turns, asked, combined_question, route, exec_sql,
                   warnings, calls, response, raised, pending_read, vvars, pvars>>

\* lines 131-152: the clarification gate; set_pending and the early return when it fires
Gate(r) ==
    /\ reqs[r].pc = "gate"
    /\ LET normalized_question == normalize_question(reqs[r].combined_question)
           intent == OverriddenIntent(normalized_question)
           clar_question == needs_clarification(intent, normalized_question)
       IN  IF Truthy(clar_question)
           THEN /\ pending_question' = Some(reqs[r].combined_question)
                /\ pending_clarification' = clar_question
                /\ reqs' = [reqs EXCEPT ![r].pc = "done",
                                        ![r].response =
                                            Some(AskResponse("I need more information to answer this.",
                                                             None, <<>>, clar_question, "0.4", <<>>))]
           ELSE /\ reqs' = [reqs EXCEPT ![r].pc = "route"]
                /\ UNCHANGED <<pending_question, pending_clarification>>
    /\ UNCHANGED <<generator_loaded, pc, turns, asked, combined_question, route, exec_sql,
                   warnings, calls, response, raised, pending_read, vvars, pvars>>

\* lines 154-320: routing, generation, validation and execution; none of them touches the
\* slot, and the generator is loaded on the way when the request is not routed
Rest(r) ==
    /\ reqs[r].pc = "route"
    /\ LET normalized_question == normalize_question(reqs[r].combined_question)
           plan == Route(OverriddenIntent(normalized_question), normalized_question)
       IN  generator_loaded' \in IF plan.route = "generated" THEN {generator_loaded, TRUE}
                                 ELSE {generator_loaded}
    /\ reqs' = [reqs EXCEPT ![r].pc = "done"]
    /\ UNCHANGED <<pending_question, pending_clarification, pc, turns, asked, combined_question,
                   route, exec_sql, warnings, calls, response, raised, pending_read, vvars, pvars>>

NextRace ==
    \/ \E q \in RaceInputs, c \in Conversations : GetPending(q, c)
    \/ \E r \in DOMAIN reqs : Followup(r)
    \/ \E r \in DOMAIN reqs : Gate(r)
    \/ \E r \in DOMAIN reqs : Rest(r)

SpecRace == Init /\ [][NextRace]_vars

(***************************************************************************)
(* SpecSerial: the same requests with a single request in flight at a      *)
(* time, as a deployment that serializes access to the process would run   *)
(* them; the requests still come from several conversations.               *)
(***************************************************************************)
\* a request arrives when every earlier one has returned
GetPendingSerial(q, c) ==
    /\ \A r \in DOMAIN reqs : reqs[r].pc = "done"
    /\ GetPending(q, c)

NextSerial ==
    \/ \E q \in RaceInputs, c \in Conversations : GetPendingSerial(q, c)
    \/ \E r \in DOMAIN reqs : Followup(r)
    \/ \E r \in DOMAIN reqs : Gate(r)
    \/ \E r \in DOMAIN reqs : Rest(r)

SpecSerial == Init /\ [][NextSerial]_vars

(***************************************************************************)
(* SpecNormalize: normalize_question applied to bounded questions          *)
(***************************************************************************)
\* the names of the country vocabulary in several letter cases, the codes themselves,
\* a country outside the vocabulary and a word that only starts like one
CountryWords ==
    {"India", "india", "INDIA", "United States", "USA", "US", "us", "United Kingdom", "UK",
     "Germany", "Singapore", "France", "Indiana", "IN", "DE"}

NormalizeInputs ==
    {pre \o w \o post :
        pre \in {"", "How many users from ", "Show users in ", "customers of "},
        w \in CountryWords,
        post \in {"", " last 7 days", " and Germany"}}

InitNormalize ==
    /\ call \in {[fn |-> "normalize_question", arg |-> q] : q \in NormalizeInputs}
    /\ returned = None
    /\ AgentInit
    /\ sql = ""
    /\ verdict = None

Normalize ==
    /\ returned = None
    /\ call.fn = "normalize_question"
    /\ returned' = Some(normalize_question(call.arg))
    /\ UNCHANGED <<call, avars, vvars, rvars>>

NextNormalize == Normalize

SpecNormalize == InitNormalize /\ [][NextNormalize]_vars

(***************************************************************************)
(* SpecOverrides: lines 131-142 of run_agent applied to bounded questions  *)
(***************************************************************************)
\* wordings that hold the aggregate, list and detail markers, alone and together
OverrideInputs ==
    {verb \o what \o post :
        verb \in {"", "Show ", "How many ", "show the sum of ", "Count and list ",
                  "total of ", "give me details of "},
        what \in {"users", "payments", "account details", "tickets by user"},
        post \in {"", " from India", " last 7 days"}}

InitOverrides ==
    /\ call \in {[fn |-> "overrides", arg |-> q] : q \in OverrideInputs}
    /\ returned = None
    /\ AgentInit
    /\ sql = ""
    /\ verdict = None

\* normalize_question, detect_intent and the two overrides
Overrides ==
    /\ returned = None
    /\ call.fn = "overrides"
    /\ returned' = Some([normalized_question |-> normalize_question(call.arg),
                         intent |-> OverriddenIntent(normalize_question(call.arg))])
    /\ UNCHANGED <<call, avars, vvars, rvars>>

NextOverrides == Overrides

SpecOverrides == InitOverrides /\ [][NextOverrides]_vars

(***************************************************************************)
(* SpecExecute: execute_read_only_query applied to bounded SQL texts, with *)
(* the wrapping of its outcome on the generative path of run_agent         *)
(***************************************************************************)
ExecutorInputs ==
    KeywordTexts \cup {"", " select id from users ;", "WITH t AS (select 1) select * from t",
                       "Sorry, I cannot answer that.", "selected", "select id from users\nLIMIT 100"}

InitExecute ==
    /\ call \in {[fn |-> "execute_read_only_query", arg |-> t, warnings |-> w] :
                    t \in ExecutorInputs, w \in {<<>>, <<WarningLimit>>}}
    /\ returned = None
    /\ AgentInit
    /\ sql = ""
    /\ verdict = None

\* db.py lines 44-72 and agent.py lines 296-320: the pre-checks raise before the with
\* statement that opens the connection; past them the database raises or returns rows
ExecuteReadOnly ==
    /\ returned = None
    /\ call.fn = "execute_read_only_query"
    /\ LET rejection == ExecutorRejects(call.arg)
           failure == ExecutionFailure(FALSE, Some(call.arg), call.warnings)
       IN  IF rejection # None
           THEN returned' = Some([raised |-> rejection, connected |-> FALSE, response |-> failure])
           ELSE \/ returned' = Some([raised |-> Some("SQLite execution error"), connected |-> TRUE,
                                     response |-> failure])
                \/ \E result \in DbResults :
                      returned' =
                          Some([raised |-> None, connected |-> TRUE,
                                response |->
                                    AskResponse("Here are the results of your query.", Some(call.arg),
                                        result.rows,
                                        Some(ExplainRows(result,
                                                 "Query executed safely with guardrails applied.")),
                                        "0.7", call.warnings)])
    /\ UNCHANGED <<call, avars, vvars, rvars>>

NextExecute == ExecuteReadOnly

SpecExecute == InitExecute /\ [][NextExecute]_vars

(***************************************************************************)
(* SpecClarify: needs_clarification applied to bounded intents and texts   *)
(***************************************************************************)
IntentSignals ==
    [is_filter : BOOLEAN, is_group_by : BOOLEAN, is_aggregate : BOOLEAN, has_time_range : BOOLEAN]

ClarifyInputs ==
    {verb \o what \o post :
        verb \in {"", "show list of ", "how many "},
        what \in {"users", "payments", "Events", "tickets"},
        post \in {"", " from America", " from IN"}}

InitClarify ==
    /\ call \in {[fn |-> "needs_clarification", intent |-> i, arg |-> q] :
                    i \in IntentSignals, q \in ClarifyInputs}
    /\ returned = None
    /\ AgentInit
    /\ sql = ""
    /\ verdict = None

Clarify ==
    /\ returned = None
    /\ call.fn = "needs_clarification"
    /\ returned' = Some(needs_clarification(call.intent, call.arg))
    /\ UNCHANGED <<call, avars, vvars, rvars>>

NextClarify == Clarify

SpecClarify == InitClarify /\ [][NextClarify]_vars

(***************************************************************************)
(* What the claims speak of, read off the SQL text itself                  *)
(***************************************************************************)
\* the last position before i of s that holds no whitespace (0 if none)
RECURSIVE PrevNonSpace(_, _)
PrevNonSpace(s, i) == IF i > 1 /\ IsSpace(Char(s, i - 1)) THEN PrevNonSpace(s, i - 1) ELSE i - 1

\* a * that stands for all columns: an item of the select list, not the argument of COUNT(*)
HasWildcardSelector(s) ==
    \E i \in 1..Len(s) :
        /\ Char(s, i) = "*"
        /\ LET j == PrevNonSpace(s, i)
           IN  j >= 1 /\ \/ Char(s, j) \in {",", "."}
                         \/ MatchAt(lower(s), "select", j - 5)
                         \/ MatchAt(lower(s), "distinct", j - 7)

\* the tables of a from clause that follow its first table, each after a comma
RECURSIVE CommaTables(_, _)
CommaTables(s, e) ==
    LET j == SkipSpace(s, e)
        k == SkipSpace(s, j + 1)
    IN  IF j <= Len(s) /\ Char(s, j) = "," /\ k <= Len(s) /\ IsIdentStart(Char(s, k))
        THEN {SubSeq(s, k, SkipWord(s, k) - 1)} \cup CommaTables(s, SkipWord(s, k))
        ELSE {}

\* the tables a text reads: those named after from and join, and after the commas of a from list
TablesReferenced(s) ==
    LET low == lower(s)
        froms == {i \in 1..Len(low) : TableMatchAt(low, "from", i)}
    IN  Range(FindTables(low, "from", 1)) \cup Range(FindTables(low, "join", 1))
        \cup UNION {CommaTables(low, SkipWord(low, SkipSpace(low, i + 4))) : i \in froms}

\* the number of statements of a text: its parts between terminators that hold something
StatementCount(s) ==
    LET cuts == {0, Len(s) + 1} \cup {i \in 1..Len(s) : Char(s, i) = ";"}
    IN  Cardinality({a \in cuts : /\ a <= Len(s)
                                  /\ LET b == Min({c \in cuts : c > a})
                                     IN  strip(SubSeq(s, a + 1, b - 1)) # ""})

\* a row cap: the word limit followed by a number
HasRowCap(s) ==
    \E i \in 1..Len(s) :
        /\ MatchAt(lower(s), "limit", i) /\ Boundary(s, i) /\ Boundary(s, i + 5)
        /\ LET j == SkipSpace(s, i + 5)
           IN  j > i + 5 /\ j <= Len(s) /\ Char(s, j) \in CharsOf(Digits)

\* a predicate on the time column: created_at compared with something
HasTimePredicate(s) ==
    \E i \in 1..Len(s) :
        /\ MatchAt(lower(s), "created_at", i)
        /\ LET j == SkipSpace(s, i + 10)
           IN  j <= Len(s) /\ Char(s, j) \in {">", "<", "="}

\* check k of validate_sql (1..6) reacts to the stripped text n, whose lower case is l
CheckTriggers(k, n, l) ==
    CASE k = 1 -> ForbiddenHit(l) # None
      [] k = 2 -> Count(n, ";") > 1
      [] k = 3 -> ~_uses_only_allowed_tables(l)
      [] k = 4 -> _has_self_join(l)
      [] k = 5 -> SearchSelectStar(l)
      [] k = 6 -> _references_large_tables_without_time_filter(l)

Triggered(s) ==
    LET n == strip(s)
        l == lower(n)
    IN  {k \in 1..6 : CheckTriggers(k, n, l)}

Executed == {k \in 1..Len(calls) : calls[k].op = "execute"}
Validated == {k \in 1..Len(calls) : calls[k].op = "validate"}

(***************************************************************************)
(* The claims                                                              *)
(***************************************************************************)
\* C1: on the generative path the executor is called only after validate_sql returned
\* success for the candidate, with the SQL of that verdict; after a blocked or
\* clarification_needed verdict it is not called in that request.
C1_ExecutorOnlyAfterSuccess ==
    route = "generated" =>
        /\ \A k \in Executed :
              /\ k > 1
              /\ k - 1 \in Validated
              /\ calls[k - 1].verdict.status = "success"
              /\ calls[k - 1].verdict.sql = Some(calls[k].sql)
        /\ \A m \in Validated :
              calls[m].verdict.status \in {"blocked", "clarification_needed"} => Executed = {}
        /\ pc = "execute" =>
              /\ calls # <<>>
              /\ Len(calls) \in Validated
              /\ calls[Len(calls)].verdict.status = "success"
              /\ calls[Len(calls)].verdict.sql = exec_sql

\* C1, witness: a generated candidate was validated, had its row cap added, and was executed
C1_Witness ==
    /\ route = "generated"
    /\ Executed # {}
    /\ response # None
    /\ response[1].confidence = "0.7"
    /\ \E m \in Validated : calls[m].verdict.sql # Some(calls[m].sql)

\* C2: validate_sql never returns blocked for a SQL text the deterministic router built
\* and is about to hand to the executor.
C2_BuiltSqlNotBlocked ==
    (pc = "execute" /\ route \in {"payments", "users"}) => validate_sql(exec_sql[1]).status # "blocked"

\* C3: a text that holds one of the ten forbidden keywords as a whole word, in any letter
\* case, is blocked with sql None and a reason naming a forbidden keyword of the text (the
\* keyword itself when the text holds no other), whatever else the text holds.
C3_ForbiddenKeywordBlocked ==
    verdict # None =>
        LET present == {k \in ClaimKeywords : SearchWord(lower(sql), k)}
        IN  present # {} =>
                /\ verdict[1].status = "blocked"
                /\ verdict[1].sql = None
                /\ \E k \in present :
                      verdict[1].reason = Some("Query contains forbidden keyword: " \o k \o ".")

\* C3, witness: a text in upper case holds the last keyword of the list, after a wildcard
\* and a table outside the schema, and was blocked for the keyword
C3_Witness ==
    /\ verdict # None
    /\ SearchWord(sql, "INTERSECT")
    /\ Triggered(sql) = {1, 3, 5}
    /\ verdict[1].reason = Some("Query contains forbidden keyword: intersect.")

\* C4: the checks run in the order forbidden keyword, several terminators, table outside
\* the schema, self-join, wildcard, time-series table without time filter, and the verdict
\* is that of the first check that reacts.
C4_FirstCheckDecides ==
    verdict # None =>
        LET triggered == Triggered(sql)
            first == Min(triggered)
            v == verdict[1]
        IN  triggered # {} =>
            /\ v.sql = None
            /\ v.warnings = <<>>
            /\ first = 1 => v.status = "blocked" /\ v.reason = Some(ReasonForbidden(ForbiddenHit(lower(strip(sql)))[1]))
            /\ first = 2 => v.status = "blocked" /\ v.reason = Some("Multiple SQL statements are not allowed.")
            /\ first = 3 => v.status = "blocked" /\ v.reason = Some("Query references tables outside the allowed schema.")
            /\ first = 4 => v.status = "blocked" /\ v.reason = Some("Self-joins are not allowed for analytics queries.")
            /\ first = 5 => v.status = "blocked" /\ v.reason = Some("SELECT * is not allowed; specify explicit columns.")
            /\ first = 6 => /\ v.status = "clarification_needed"
                            /\ v.reason = None
                            /\ v.question = Some("Which time range do you want? (last 7 days / last 30 days / custom)")

\* C4, witness: a wildcard over payments without a time filter was blocked, not sent back
\* for clarification
C4_Witness ==
    /\ verdict # None
    /\ Triggered(sql) = {5, 6}
    /\ verdict[1].status = "blocked"

\* C5: a text that holds a wildcard column selector is blocked.
C5_WildcardBlocked ==
    (verdict # None /\ HasWildcardSelector(sql)) => verdict[1].status = "blocked"

\* C6: a text that reads a table outside users, payments, events and tickets is blocked,
\* with the schema reason when no earlier check reacted.
C6_ForeignTableBlocked ==
    (verdict # None /\ ~(TablesReferenced(sql) \subseteq {"users", "payments", "events", "tickets"})) =>
        /\ verdict[1].status = "blocked"
        /\ Triggered(sql) \cap {1, 2} = {} =>
              verdict[1].reason = Some("Query references tables outside the allowed schema.")

\* C7: no text that stacks more than one statement is returned as success; a text with
\* more than one terminator is blocked, for several statements unless a forbidden keyword
\* blocked it first.
C7_NoStackedStatements ==
    verdict # None =>
        /\ StatementCount(sql) > 1 => verdict[1].status # "success"
        /\ Count(sql, ";") > 1 =>
              /\ verdict[1].status = "blocked"
              /\ 1 \notin Triggered(sql) =>
                    verdict[1].reason = Some("Multiple SQL statements are not allowed.")

\* C8: a text no check reacts to is returned as success; without a row cap, as the input
\* without its trailing terminator plus " LIMIT 50", with the automatic-limit warning; with
\* one, as the stripped input and without warnings.
C8_RowCapEnsured ==
    (verdict # None /\ Triggered(sql) = {}) =>
        /\ verdict[1].status = "success"
        /\ ~HasRowCap(sql) =>
              /\ verdict[1].sql = Some(rstripChar(strip(sql), ";") \o " LIMIT 50")
              /\ \E w \in 1..Len(verdict[1].warnings) :
                    verdict[1].warnings[w] = "LIMIT 50 was automatically applied for safety"
        /\ HasRowCap(sql) => verdict[1].sql = Some(strip(sql)) /\ verdict[1].warnings = <<>>

\* C9: every SQL text run_agent hands to the executor carries a row cap, on the payment
\* path, on the user path and on the generative path.
C9_ExecutedSqlHasRowCap ==
    /\ \A k \in Executed : HasRowCap(calls[k].sql)
    /\ pc = "execute" => HasRowCap(exec_sql[1])

\* C10: a text checks 1-5 do not react to, that reads payments or events and holds no
\* predicate on created_at, gets clarification_needed with the time-range prompt.
C10_TimeSeriesNeedsTimePredicate ==
    (/\ verdict # None
     /\ Triggered(sql) \cap {1, 2, 3, 4, 5} = {}
     /\ TablesReferenced(sql) \cap {"payments", "events"} # {}
     /\ ~HasTimePredicate(sql)) =>
        /\ verdict[1].status = "clarification_needed"
        /\ verdict[1].question = Some("Which time range do you want? (last 7 days / last 30 days / custom)")

(***************************************************************************)
(* What the claims speak of, read off the question and the response        *)
(***************************************************************************)
\* the text names a payment or an event
MentionsTimeSeriesSubject(q) == Contains(lower(q), "payment") \/ Contains(lower(q), "event")

\* the text holds one of the relative time markers (last, past, N days, N weeks, N months)
HasTimeMarker(q) == detect_intent(q).has_time_range

\* the request in progress has returned
Returned == pc = "done" /\ response # None

\* the response asks the caller to clarify with the given prompt
IsClarification(r, prompt) == r.confidence = "0.4" /\ r.explanation = Some(prompt)

\* C11: a request whose question names a payment or an event and holds no time marker
\* returns the clarification response with the time-range prompt, whatever the slot held
\* when the request started.
C11_TimeRangePromptForTimeSeriesQuestions ==
    (pc = "done" /\ MentionsTimeSeriesSubject(asked) /\ ~HasTimeMarker(asked)) =>
        /\ response # None
        /\ IsClarification(response[1], ClarTimeRange)

\* the prompts a clarification response can carry: the three of needs_clarification and
\* the two of the validator branch of run_agent
ClarificationPrompts ==
    {ClarTimeRange, ClarAmerica, ClarListOrCount, QuestionTimeRange,
     "I need a time range to run this query safely."}

\* the request in progress returned a clarification response
ReturnedClarification ==
    /\ Returned
    /\ response[1].confidence = "0.4"
    /\ response[1].explanation \in {Some(p) : p \in ClarificationPrompts}

\* C12: when a request returns a clarification response, from the clarification policy or
\* from the validator's clarification_needed verdict, the slot holds the question of the
\* request and the prompt of the response.
C12_ClarificationArmsSlot ==
    ReturnedClarification =>
        /\ pending_question = Some(combined_question)
        /\ pending_clarification = response[1].explanation

\* C13: a request that found the slot occupied when it started leaves it empty from its
\* follow-up step on, whether or not a merge rule matched, unless the request itself
\* returned a clarification of the policy and armed the slot with it.
C13_SlotClearedAfterOneTurn ==
    (turns > 0 /\ Truthy(pending_read)) =>
        \/ pending_question = None /\ pending_clarification = None
        \/ /\ pc = "done"
           /\ route = "clarification"
           /\ ReturnedClarification
           /\ pending_question = Some(combined_question)
           /\ pending_clarification = response[1].explanation

\* C13, witness: the slot was occupied, the reply matched no merge rule, and the request
\* went on with the reply alone and returned with the slot empty
C13_Witness ==
    /\ Truthy(pending_read)
    /\ ~is_followup_answer(asked)
    /\ _resolve_followup(pending_read[1], asked) = None
    /\ combined_question = asked
    /\ pc = "done"
    /\ pending_question = None
    /\ pending_clarification = None

\* what every merge rule of _resolve_followup keeps of a pending question
CarriedText(pending) == strip(StripLeadingShow(strip(pending)))

\* C14: the text of a question that triggered a clarification is merged into the next
\* request only: when the request that found it in the slot returns, the slot holds no
\* text of it for a second follow-up turn.
C14_NoChainingAcrossTurns ==
    (pc = "done" /\ Truthy(pending_read)) =>
        ~(Truthy(pending_question) /\ Contains(pending_question[1], CarriedText(pending_read[1])))

\* r has the fields of an AskResponse, with a confidence of the enumeration
WellFormed(r) ==
    /\ DOMAIN r = {"answer", "sql", "rows", "explanation", "confidence", "warnings"}
    /\ r.confidence \in {"0.0", "0.4", "0.7"}

\* C15: every request ends by returning a well-formed AskResponse; no failure of model
\* loading, generation, cleaning, validation or execution leaves run_agent as an exception.
C15_NoExceptionEscapes ==
    pc = "done" => /\ ~raised
                   /\ response # None
                   /\ WellFormed(response[1])

\* the branches a request can end in, read off the calls it made
ExecutorSucceeded == \E k \in Executed : calls[k].ok
ExecutorFailed == \E k \in Executed : ~calls[k].ok
GenerationFailed == \E k \in 1..Len(calls) : calls[k].op = "generate" /\ ~calls[k].ok
ValidatorBlocked == \E k \in Validated : calls[k].verdict.status = "blocked"
ClarificationRequested ==
    \/ route = "clarification"
    \/ \E k \in Validated : calls[k].verdict.status = "clarification_needed"

\* C16: the confidence of every response is 0.0, 0.4 or 0.7 and is fixed by the branch:
\* 0.7 exactly when the executor call succeeded, 0.0 exactly when generation failed or
\* the validator blocked, 0.4 exactly when a clarification is requested or the executor
\* call failed.
C16_ConfidenceFixedByBranch ==
    response # None =>
        LET confidence == response[1].confidence
        IN  /\ confidence \in {"0.0", "0.4", "0.7"}
            /\ confidence = "0.7" <=> ExecutorSucceeded
            /\ confidence = "0.0" <=> (GenerationFailed \/ ValidatorBlocked)
            /\ confidence = "0.4" <=> (ClarificationRequested \/ ExecutorFailed)

\* C16, witness: a generated query passed the validator and the executor raised on it
C16_Witness ==
    /\ response # None
    /\ route = "generated"
    /\ ExecutorFailed
    /\ ~ClarificationRequested
    /\ response[1].confidence = "0.4"

(***************************************************************************)
(* What the claims speak of, read off the concurrent requests              *)
(***************************************************************************)
\* request r has read an occupied slot and has not yet merged and cleared it
InReadMergeClear(r) == reqs[r].pc = "followup" /\ Truthy(reqs[r].pending_question)

\* the follow-up step of request r merges the pending question into its own question
Merges(r) == CombinedQuestion(reqs[r].pending_question, reqs[r].question) # reqs[r].question

\* C17: the read-merge-clear of the slot is atomic among the concurrent requests of a
\* conversation: no two of them are between their read of an occupied slot and their
\* clear with both merging the pending question, and the slot a request is about to
\* clear still holds what the request read, not a clarification armed since by another.
C17_AtomicReadMergeClear ==
    \A r1, r2 \in DOMAIN reqs :
        (r1 # r2 /\ reqs[r1].conversation = reqs[r2].conversation /\ InReadMergeClear(r1)) =>
            /\ ~(InReadMergeClear(r2) /\ Merges(r1) /\ Merges(r2))
            /\ pending_question = reqs[r1].pending_question

\* the requests before r that armed the slot with a clarification
ArmedBefore(r) == {a \in 1..(r - 1) : reqs[a].response # None}

Max(S) == CHOOSE x \in S : \A y \in S : y <= x

\* C18: the slot is per conversation: with the requests serialized, the pending entry a
\* request reads, and so clears and may merge, was armed by a request of its own
\* conversation.
C18_SlotPerConversation ==
    \A r \in DOMAIN reqs :
        Truthy(reqs[r].pending_question) =>
            /\ ArmedBefore(r) # {}
            /\ reqs[Max(ArmedBefore(r))].conversation = reqs[r].conversation

\* C19: normalize_question is idempotent: normalizing what it returned gives the same
\* text again, for questions that mention each of the mapped countries.
C19_NormalizeIdempotent ==
    returned # None => normalize_question(returned[1]) = returned[1]

\* the canonical codes of the countries the text names, by the vocabulary of COUNTRY_MAP
CountriesNamed(q) ==
    {COUNTRY_MAP[k][2] : k \in {j \in 1..Len(COUNTRY_MAP) : SearchWord(lower(q), COUNTRY_MAP[j][1])}}

\* the text holds a count marker
HasCountMarker(q) == \E marker \in {"count", "how many", "total"} : Contains(lower(q), marker)

\* C20: when the deterministic user path fires for a question that names exactly one
\* country of the vocabulary, the built SQL filters users on the canonical code of that
\* country, counts when the question holds a count marker, and the response has
\* confidence 0.7 when the execution succeeded.
C20_UserPathFiltersNamedCountry ==
    (route = "users" /\ exec_sql # None /\ Cardinality(CountriesNamed(combined_question)) = 1) =>
        LET code == CHOOSE c \in CountriesNamed(combined_question) : TRUE
        IN  /\ Contains(exec_sql[1], "\nWHERE country = '" \o code \o "'")
            /\ HasCountMarker(combined_question) =>
                  StartsWith(exec_sql[1], "SELECT COUNT(*) AS user_count")
            /\ (response # None /\ ExecutorSucceeded) => response[1].confidence = "0.7"

\* the replies that ask for a count
AggregateReplies == {"count", "just the count", "total", "sum", "how many"}

\* C21: when the slot holds a pending question and the reply is an aggregate reply, the
\* question that is classified in that request is an aggregate-phrased question about the
\* subject of the pending one: it holds the pending question without its leading show,
\* it holds a count marker, and its is_aggregate signal after the overrides is true.
C21_AggregateReplyMergesToCount ==
    (turns > 0 /\ Truthy(pending_read) /\ lower(strip(asked)) \in AggregateReplies) =>
        /\ Contains(combined_question, CarriedText(pending_read[1]))
        /\ HasCountMarker(combined_question)
        /\ OverriddenIntent(normalize_question(combined_question)).is_aggregate

\* C21, witness: the scenario of the pending "Show payments" answered by a reply outside
\* the fixed set, rewritten with the leading show stripped
C21_Witness ==
    /\ pending_read = Some("Show payments")
    /\ asked = "sum"
    /\ combined_question = "How many payments"
    /\ pc = "done"

\* the text holds one of the aggregate markers of the classifier
HasAggregateMarker(q) ==
    \E marker \in {"count", "how many", "total", "sum"} : Contains(lower(q), marker)

\* the text holds a list or detail marker
HasListMarker(q) == \E marker \in {" list", "show ", "details"} : Contains(lower(q), marker)

\* C22: before the clarification gate and the routing, an aggregate marker in the
\* normalized question makes is_aggregate true, also beside a list or detail marker; a
\* list or detail marker without an aggregate marker makes it false; with neither the
\* value of the classifier is kept; the other three signals are those of the classifier.
C22_ExplicitWordingOverrides ==
    returned # None /\ call.fn = "overrides" =>
        LET q == returned[1].normalized_question
            before == detect_intent(q)
            after == returned[1].intent
        IN  /\ HasAggregateMarker(q) => after.is_aggregate
            /\ (~HasAggregateMarker(q) /\ HasListMarker(q)) => ~after.is_aggregate
            /\ (~HasAggregateMarker(q) /\ ~HasListMarker(q)) => after.is_aggregate = before.is_aggregate
            /\ after.is_filter = before.is_filter
            /\ after.is_group_by = before.is_group_by
            /\ after.has_time_range = before.has_time_range

\* the statement begins with SELECT or WITH, in any letter case
BeginsWithSelectOrWith(s) ==
    StartsWith(lower(strip(s)), "select") \/ StartsWith(lower(strip(s)), "with")

\* the write keywords the claim lists
WriteKeywords == {"insert", "update", "delete", "drop", "alter", "truncate", "create"}

HasWriteKeyword(s) == \E k \in WriteKeywords : SearchWord(lower(s), k)

\* C23: execute_read_only_query raises, before a connection is opened or a statement is
\* run, for every text that does not begin with SELECT or WITH or that holds a write
\* keyword as a whole word; run_agent turns the rejection into the confidence-0.4
\* execution-failure response that still carries the SQL, with a warning appended.
C23_ExecutorRejectsWrites ==
    (returned # None /\ call.fn = "execute_read_only_query"
     /\ (~BeginsWithSelectOrWith(call.arg) \/ HasWriteKeyword(call.arg))) =>
        /\ returned[1].raised # None
        /\ ~returned[1].connected
        /\ returned[1].response.confidence = "0.4"
        /\ returned[1].response.sql = Some(call.arg)
        /\ returned[1].response.explanation = Some("Query execution failed.")
        /\ returned[1].response.warnings =
               Append(call.warnings, "Query failed to execute. Please adjust your request.")

\* C23, witness: a statement that begins with SELECT and holds the last write keyword of
\* the list in mixed case was rejected before the connection
C23_Witness ==
    /\ returned # None
    /\ call.fn = "execute_read_only_query"
    /\ call.arg = "select id from users; Create table users"
    /\ call.warnings = <<WarningLimit>>
    /\ returned[1].raised = Some("Write operations are not allowed in read-only mode.")
    /\ ~returned[1].connected

\* the three rules of the clarification policy, each taken alone
RuleTimeRange(intent, q) == MentionsTimeSeriesSubject(q) /\ ~intent.has_time_range
RuleAmerica(q) == Contains(lower(q), "america")
RuleListOrCount(intent, q) ==
    /\ intent.is_filter
    /\ ~intent.is_aggregate
    /\ ~\E marker \in {" list", "show list", "just the list", "count", "how many", "total",
                       "just the count"} : Contains(lower(q), marker)

\* C24: needs_clarification applies its rules first-match-wins in the order time range,
\* ambiguous america, list or count, and returns one prompt or none: the time-range
\* prompt when rule 1 applies, the america prompt when rule 2 applies and rule 1 does
\* not, the list-or-count prompt when only rule 3 applies, and none only when no rule
\* applies.
C24_FirstMatchWins ==
    (returned # None /\ call.fn = "needs_clarification") =>
        LET r1 == RuleTimeRange(call.intent, call.arg)
            r2 == RuleAmerica(call.arg)
            r3 == RuleListOrCount(call.intent, call.arg)
            prompt == returned[1]
        IN  /\ prompt \in {None, Some(ClarTimeRange), Some(ClarAmerica), Some(ClarListOrCount)}
            /\ r1 => prompt = Some(ClarTimeRange)
            /\ (~r1 /\ r2) => prompt = Some(ClarAmerica)
            /\ (~r1 /\ ~r2 /\ r3) => prompt = Some(ClarListOrCount)
            /\ prompt = None <=> ~(r1 \/ r2 \/ r3)

\* C24, witness: the three rules apply together and the time-range prompt was returned
C24_Witness ==
    /\ returned = Some(Some(ClarTimeRange))
    /\ call.fn = "needs_clarification"
    /\ RuleTimeRange(call.intent, call.arg)
    /\ RuleAmerica(call.arg)
    /\ RuleListOrCount(call.intent, call.arg)

\* the positions of the calls of one kind in the log of the request
CallsOf(op) == {k \in 1..Len(calls) : calls[k].op = op}

\* C25: within a request the stages run in the order follow-up, clarification gate,
\* payment path, user path, generator, validator, executor, and none is retried: the
\* generator, the validator and the executor are invoked at most once, in that order; a
\* request that ends in a policy clarification invokes none of them and is the only kind
\* the gate stops; a deterministic path invokes neither generator nor validator; the user
\* path is taken only for a question that names no payment, event or ticket.
C25_StagesInOrderOnce ==
    LET nq == normalize_question(combined_question)
        order == <<"generate", "validate", "execute">>
    IN  /\ \A op \in {"generate", "validate", "execute"} : Cardinality(CallsOf(op)) <= 1
        /\ \A i, j \in 1..3 :
              i < j => \A a \in CallsOf(order[i]), b \in CallsOf(order[j]) : a < b
        /\ route = "clarification" =>
              /\ calls = <<>>
              /\ pc = "done"
              /\ Truthy(needs_clarification(OverriddenIntent(nq), nq))
        /\ route \in {"payments", "users", "generated"} =>
              needs_clarification(OverriddenIntent(nq), nq) = None
        /\ route \in {"payments", "users"} => CallsOf("generate") \cup CallsOf("validate") = {}
        /\ route = "payments" => Contains(lower(nq), "payment")
        /\ route = "users" =>
              ~\E name \in {"payment", "event", "ticket"} : Contains(lower(nq), name)

\* C25, witness: a question about users that names tickets was not taken by the user
\* path and went through the generator, the validator and the executor, once each
C25_Witness ==
    /\ pc = "done"
    /\ route = "generated"
    /\ Len(calls) = 3
    /\ calls[1].op = "generate"
    /\ calls[2].op = "validate"
    /\ calls[3].op = "execute"
    /\ asked = "How many users opened tickets"

\* the reply is in the fixed reply set or holds a time, aggregate or list keyword
MatchesMergeRule(reply) ==
    \/ lower(strip(reply)) \in FOLLOWUP_ANSWERS
    \/ \E k \in {"days", "weeks", "months", "last", "past", "count", "how many", "total", "sum",
                 "list", "show"} : Contains(lower(reply), k)

\* the slot is empty, or holds what the clarification gate of this request armed
EmptyOrArmedByThisRequest ==
    \/ pending_question = None /\ pending_clarification = None
    \/ route = "clarification" /\ pending_question = Some(combined_question)

\* C26: follow-up resolution leaves unrelated input alone: with an empty slot the
\* question is processed unchanged and the resolution leaves the slot empty; with an
\* occupied slot and a reply that is neither in the fixed set nor holds a time, aggregate
\* or list keyword, the pending question is discarded and the question processed is the
\* new input itself.
C26_UnrelatedInputLeftAlone ==
    turns > 0 =>
        /\ pending_read = None => (combined_question = asked /\ EmptyOrArmedByThisRequest)
        /\ (Truthy(pending_read) /\ ~MatchesMergeRule(asked)) =>
              (combined_question = asked /\ EmptyOrArmedByThisRequest)

\* C26, witness: the pending payments question was discarded by a reply that matches no
\* rule, and the reply alone went to the generator
C26_Witness ==
    /\ pending_read = Some("Show payments")
    /\ asked = "thanks"
    /\ combined_question = "thanks"
    /\ route = "generated"
    /\ pending_question = None

\* the created_at predicate of a window of n days
DayWindow(n) == "created_at >= datetime('now', '-" \o IntText(n) \o " days')"

\* C27: every payments SQL the deterministic payment path hands to the executor holds a
\* created_at day-window predicate, of 7 or of 30 days as the markers of the question
\* say, 30 when both markers appear, and filters on no status or on the status failed.
C27_PaymentPathIsTimeScoped ==
    (route = "payments" /\ exec_sql # None) =>
        LET q == lower(normalize_question(combined_question))
            text == exec_sql[1]
        IN  /\ Contains(text, DayWindow(7)) \/ Contains(text, DayWindow(30))
            /\ Contains(q, "30 days") => Contains(text, DayWindow(30))
            /\ (Contains(q, "7 days") /\ ~Contains(q, "30 days")) => Contains(text, DayWindow(7))
            /\ Contains(text, "status = ") => Contains(text, "status = 'failed'")

\* the keyword classes of a reply outside the fixed set
HoldsTimeKeyword(reply) ==
    \E k \in {"days", "weeks", "months", "last", "past"} : Contains(lower(reply), k)
HoldsAggregateKeyword(reply) ==
    \E k \in {"count", "how many", "total", "sum"} : Contains(lower(reply), k)
HoldsListKeyword(reply) == \E k \in {"list", "show"} : Contains(lower(reply), k)

\* C28: with an occupied slot and an input outside the fixed reply set that holds an
\* aggregate or a list keyword and no time keyword, the question that is classified and
\* routed is built from the pending question alone, How many or Show followed by the
\* pending question without its leading show: nothing else of the input reaches it.
C28_KeywordReplyKeepsPendingOnly ==
    (turns > 0 /\ Truthy(pending_read) /\ ~is_followup_answer(asked) /\ ~HoldsTimeKeyword(asked)) =>
        /\ HoldsAggregateKeyword(asked) =>
              combined_question = "How many " \o CarriedText(pending_read[1])
        /\ (HoldsListKeyword(asked) /\ ~HoldsAggregateKeyword(asked)) =>
              combined_question = "Show " \o CarriedText(pending_read[1])

\* C28, witness: a complete new question that holds show was asked while a question
\* about users was pending, and the pending question was processed in its place
C28_Witness ==
    /\ pending_read = Some("Show users from America")
    /\ asked = "Show tickets"
    /\ combined_question = "Show users from America"
    /\ route = "clarification"

\* C29: a pending question that holds america is not resolved by a merged follow-up:
\* for every reply that is merged with it the merged question still holds america, the
\* request ends in a clarification response of confidence 0.4 that arms the slot again,
\* and no SQL is built or executed; an executed query needs a reply that matches no
\* merge rule.
C29_AmericaSurvivesMerge ==
    (turns > 0 /\ Truthy(pending_read) /\ Contains(lower(pending_read[1]), "america")
     /\ MatchesMergeRule(asked)) =>
        /\ Contains(lower(combined_question), "america")
        /\ route = "clarification"
        /\ ReturnedClarification
        /\ pending_question = Some(combined_question)
        /\ pending_clarification = response[1].explanation
        /\ exec_sql = None
        /\ calls = <<>>

\* C29, witness: the pending question about users from America was answered by count,
\* and the merged question was asked about again
C29_Witness ==
    /\ pending_read = Some("Show users from America")
    /\ asked = "count"
    /\ combined_question = "Show users from America count"
    /\ pending_clarification = Some(ClarAmerica)
    /\ pc = "done"

====
